---- MODULE Spec2Model ----
(***************************************************************************)
(* Model of run_commands.py: the I2CCommandRunner script interpreter.      *)
(*                                                                         *)
(* Text is modelled as sequences of one-character strings, so that the     *)
(* Python string operations the interpreter relies on (strip, split,       *)
(* replace, startswith, upper, slicing, re.match) are computed and not     *)
(* assumed.  The serial port, the script file and the device are the       *)
(* environment: their results are nondeterministic choices.                *)
(***************************************************************************)
EXTENDS Integers, Sequences, FiniteSets, TLC

(***************************************************************************)
(* Bounds of the model.                                                    *)
(***************************************************************************)
\* Number of script lines a run reads at most.
MaxLines == 3
\* Number of reply lines the device delivers in one drain window at most.
MaxReplies == 3

(***************************************************************************)
(* Python str operations.                                                  *)
(***************************************************************************)
\* Characters str.strip() removes (the ones that occur in the model).
Whitespace == {" ", "\t", "\n", "\r"}

RECURSIVE LStripChars(_, _)
LStripChars(s, chars) ==
    IF s # <<>> /\ Head(s) \in chars THEN LStripChars(Tail(s), chars) ELSE s

RECURSIVE RStripChars(_, _)
RStripChars(s, chars) ==
    IF s # <<>> /\ s[Len(s)] \in chars
    THEN RStripChars(SubSeq(s, 1, Len(s) - 1), chars)
    ELSE s

\* s.strip(chars)
StripChars(s, chars) == RStripChars(LStripChars(s, chars), chars)

\* s.strip()
Strip(s) == StripChars(s, Whitespace)

\* c in s
Contains(s, c) == \E i \in 1..Len(s) : s[i] = c

\* s.find(c) as a 1-based index; 0 when c does not occur
Find(s, c) ==
    IF Contains(s, c)
    THEN CHOOSE i \in 1..Len(s) : s[i] = c /\ \A j \in 1..(i - 1) : s[j] # c
    ELSE 0

\* s.split(c)[0]: the text before the first c (all of s without a c)
SplitHead(s, c) == IF Contains(s, c) THEN SubSeq(s, 1, Find(s, c) - 1) ELSE s

\* s.split(c, 1)[1]: the text after the first c (s contains c)
SplitRest(s, c) == SubSeq(s, Find(s, c) + 1, Len(s))

\* s.startswith(p)
StartsWith(s, p) == Len(s) >= Len(p) /\ SubSeq(s, 1, Len(p)) = p

\* s.endswith(p)
EndsWith(s, p) == Len(s) >= Len(p) /\ SubSeq(s, Len(s) - Len(p) + 1, Len(s)) = p

\* s[n:]
SliceFrom(s, n) == SubSeq(s, n + 1, Len(s))

\* s[1:-1]
SliceInner(s) == SubSeq(s, 2, Len(s) - 1)

\* c.upper() for one character
UpperChar(c) ==
    CASE c = "e" -> "E"
      [] c = "x" -> "X"
      [] c = "p" -> "P"
      [] c = "c" -> "C"
      [] c = "t" -> "T"
      [] c = "a" -> "A"
      [] c = "b" -> "B"
      [] OTHER -> c

\* s.upper()
Upper(s) == [i \in 1..Len(s) |-> UpperChar(s[i])]

\* s.replace(old, new): non-overlapping occurrences, left to right; an empty
\* old matches before every character and at the end.
RECURSIVE ReplaceEmpty(_, _)
ReplaceEmpty(s, new) ==
    IF s = <<>> THEN new ELSE new \o <<Head(s)>> \o ReplaceEmpty(Tail(s), new)

RECURSIVE ReplaceNonEmpty(_, _, _)
ReplaceNonEmpty(s, old, new) ==
    IF Len(s) < Len(old) THEN s
    ELSE IF SubSeq(s, 1, Len(old)) = old
         THEN new \o ReplaceNonEmpty(SliceFrom(s, Len(old)), old, new)
         ELSE <<Head(s)>> \o ReplaceNonEmpty(Tail(s), old, new)

Replace(s, old, new) ==
    IF old = <<>> THEN ReplaceEmpty(s, new) ELSE ReplaceNonEmpty(s, old, new)

(***************************************************************************)
(* The variable store: a Python dict, which iterates in insertion order.   *)
(* It is a sequence of [name, value] entries with distinct names.          *)
(***************************************************************************)
DictHas(d, k) == \E i \in 1..Len(d) : d[i].name = k

DictIndex(d, k) == CHOOSE i \in 1..Len(d) : d[i].name = k

\* d[k]
DictGet(d, k) == d[DictIndex(d, k)].value

\* Mutant of DictSet: setdefault, an existing key keeps its value.
DictSet_KeepFirst(d, k, v) ==
    IF \E i \in 1..Len(d) : d[i].name = k
    THEN d
    ELSE Append(d, [name |-> k, value |-> v])

\* Mutant of DictSet: a key that is set again moves to the end.
DictSet_MoveToEnd(d, k, v) ==
    Append(SelectSeq(d, LAMBDA e : e.name # k), [name |-> k, value |-> v])

\* d[k] = v: an existing key keeps its position, a new key is appended
DictSet(d, k, v) ==
    IF DictHas(d, k)
    THEN [d EXCEPT ![DictIndex(d, k)].value = v]
    ELSE Append(d, [name |-> k, value |-> v])

(***************************************************************************)
(* parse_line                                                              *)
(***************************************************************************)
\* Mutant of parse_line: the comment is not split off the command.
parse_line_KeepComment(raw) ==
    IF Strip(raw) = <<>>
    THEN [blank |-> TRUE, command |-> <<>>, comment |-> <<>>]
    ELSE [blank |-> FALSE, command |-> Strip(raw), comment |-> <<>>]

\* The result (None, None) is the record with blank = TRUE.
parse_line(raw) ==
    LET stripped == Strip(raw) IN
    IF stripped = <<>>
    THEN [blank |-> TRUE, command |-> <<>>, comment |-> <<>>]
    ELSE IF Contains(stripped, "#")
         THEN [blank |-> FALSE,
               command |-> Strip(SplitHead(stripped, "#")),
               comment |-> Strip(SplitRest(stripped, "#"))]
         ELSE [blank |-> FALSE, command |-> stripped, comment |-> <<>>]

(***************************************************************************)
(* handle_variable_assignment                                              *)
(***************************************************************************)
\* The return value: whether the command is consumed as an assignment.
IsAssignment(command) == Contains(command, "=")

AssignedName(command) == Strip(SplitHead(command, "="))

\* "Remove quotes if present"
UnquoteValue(var_value) ==
    IF StartsWith(var_value, <<"\"">>) /\ EndsWith(var_value, <<"\"">>)
    THEN SliceInner(var_value)
    ELSE var_value

AssignedValue(command) == UnquoteValue(Strip(SplitRest(command, "=")))

\* Mutant of handle_variable_assignment: the store is rebuilt with the new
\* variable alone.
handle_variable_assignment_Fresh(vars_, command) ==
    << [name |-> AssignedName(command), value |-> AssignedValue(command)] >>

\* self.variables after handle_variable_assignment(command)
handle_variable_assignment(vars_, command) ==
    DictSet(vars_, AssignedName(command), AssignedValue(command))

(***************************************************************************)
(* substitute_variables                                                    *)
(***************************************************************************)
\* Mutant of substitute_variables: one pass in which a name is matched only
\* against characters of the original command, never against inserted text.
Marked(s, original) == [i \in 1..Len(s) |-> [c |-> s[i], orig |-> original]]

Unmarked(m) == [i \in 1..Len(m) |-> m[i].c]

RECURSIVE ReplaceOriginal(_, _, _)
ReplaceOriginal(m, old, new) ==
    IF old = <<>>
    THEN IF m = <<>> THEN Marked(new, FALSE)
         ELSE Marked(new, FALSE) \o <<Head(m)>>
                  \o ReplaceOriginal(Tail(m), old, new)
    ELSE IF Len(m) < Len(old) THEN m
    ELSE IF \A k \in 1..Len(old) : m[k].c = old[k] /\ m[k].orig
         THEN Marked(new, FALSE)
                  \o ReplaceOriginal(SubSeq(m, Len(old) + 1, Len(m)), old, new)
         ELSE <<Head(m)>> \o ReplaceOriginal(Tail(m), old, new)

RECURSIVE SinglePassFrom(_, _, _)
SinglePassFrom(vars_, i, m) ==
    IF i > Len(vars_) THEN m
    ELSE SinglePassFrom(vars_, i + 1,
                        ReplaceOriginal(m, vars_[i].name, vars_[i].value))

substitute_variables_SinglePass(vars_, command) ==
    Unmarked(SinglePassFrom(vars_, 1, Marked(command, TRUE)))

RECURSIVE SubstituteFrom(_, _, _)
SubstituteFrom(vars_, i, command) ==
    IF i > Len(vars_) THEN command
    ELSE SubstituteFrom(vars_, i + 1,
                        Replace(command, vars_[i].name, vars_[i].value))

substitute_variables(vars_, command) == SubstituteFrom(vars_, 1, command)

(***************************************************************************)
(* re.match(pattern, string) for the part of Python's regular expression   *)
(* syntax that texts of the model can contain: literal characters, ".",    *)
(* a postfix "*" and a character set "[...]".  The model's texts hold none *)
(* of the other special characters (see RegexFree below).                  *)
(***************************************************************************)
RegexUnmodelled == {"^", "$", "+", "?", "{", "}", "\\", "|", "(", ")", "-"}

\* Index of the "]" that closes the set opened at position i, 0 if none.
\* A "]" right after the "[" is a member of the set, not its end.
SetClose(p, i) ==
    IF \E j \in (i + 2)..Len(p) : p[j] = "]"
    THEN CHOOSE j \in (i + 2)..Len(p) :
             p[j] = "]" /\ \A k \in (i + 2)..(j - 1) : p[k] # "]"
    ELSE 0

\* sre_parse: the pattern as a sequence of items, each a set of characters
\* (any = TRUE for ".") with an optional "*"; ok = FALSE is re.error.
RECURSIVE RegexParse(_, _, _)
RegexParse(p, i, acc) ==
    IF i > Len(p) THEN [ok |-> TRUE, items |-> acc]
    ELSE IF p[i] = "*"
         THEN IF acc = <<>> \/ acc[Len(acc)].star
              THEN [ok |-> FALSE, items |-> <<>>]
              ELSE RegexParse(p, i + 1, [acc EXCEPT ![Len(acc)].star = TRUE])
    ELSE IF p[i] = "["
         THEN IF SetClose(p, i) = 0
              THEN [ok |-> FALSE, items |-> <<>>]
              ELSE RegexParse(p, SetClose(p, i) + 1,
                       Append(acc, [any |-> FALSE,
                                    chars |-> {p[k] : k \in (i + 1)..(SetClose(p, i) - 1)},
                                    star |-> FALSE]))
    ELSE IF p[i] = "."
         THEN RegexParse(p, i + 1,
                  Append(acc, [any |-> TRUE, chars |-> {}, star |-> FALSE]))
    ELSE RegexParse(p, i + 1,
             Append(acc, [any |-> FALSE, chars |-> {p[i]}, star |-> FALSE]))

\* re.compile(p) does not raise re.error
RegexValid(p) == RegexParse(p, 1, <<>>).ok

\* Some match of items[i..] starts at position j of r (it may end anywhere).
RECURSIVE RegexMatchAt(_, _, _, _)
RegexMatchAt(items, i, r, j) ==
    IF i > Len(items) THEN TRUE
    ELSE LET fits == j <= Len(r) /\ (items[i].any \/ r[j] \in items[i].chars) IN
         IF items[i].star
         THEN RegexMatchAt(items, i + 1, r, j)
              \/ (fits /\ RegexMatchAt(items, i, r, j + 1))
         ELSE fits /\ RegexMatchAt(items, i + 1, r, j + 1)

\* The items from the i-th on match r from position j to its end.
RECURSIVE RegexFullAt(_, _, _, _)
RegexFullAt(items, i, r, j) ==
    IF i > Len(items) THEN j = Len(r) + 1
    ELSE LET fits == j <= Len(r) /\ (items[i].any \/ r[j] \in items[i].chars) IN
         IF items[i].star
         THEN RegexFullAt(items, i + 1, r, j)
              \/ (fits /\ RegexFullAt(items, i, r, j + 1))
         ELSE fits /\ RegexFullAt(items, i + 1, r, j + 1)

\* Mutant of re_match: re.fullmatch, the pattern has to consume all of r.
re_fullmatch(p, r) == RegexFullAt(RegexParse(p, 1, <<>>).items, 1, r, 1)

\* re.match(p, r) is not None, for a valid p
re_match(p, r) == RegexMatchAt(RegexParse(p, 1, <<>>).items, 1, r, 1)

(***************************************************************************)
(* Inputs: the script lines the file can hold and the lines the device can *)
(* reply.  Every line of a text file read by "for line in f" ends with a   *)
(* newline.                                                                *)
(***************************************************************************)
Q == "\""

KwExpect == <<"E", "X", "P", "E", "C", "T">>

DebugMarker == <<"[", "D", "B", "G", "]">>

\* Blank and comment-only lines
L_Spaces     == <<" ", "\t", "\n">>
L_Comment    == <<" ", "#", " ", "A", "=", "1", "\n">>
\* Assignments
L_A_is_B     == <<"A", "=", "B", "\n">>
L_B_is_QQcQQ == <<"B", "=", Q, Q, "c", Q, Q, "\n">>
L_A_is_QOKQ  == <<"A", " ", "=", " ", Q, "O", "K", Q, " ", "#", "c", "\n">>
L_B_is_Q     == <<"B", "=", Q, "\n">>
L_SetAeq1    == <<"S", "E", "T", " ", "A", "=", "1", "\n">>
L_ExpectEq   == KwExpect \o <<" ", Q, "a", "=", "b", Q, "\n">>
\* EXPECT directives
L_ExpectOK   == KwExpect \o <<" ", Q, "O", "K", Q, "\n">>
L_expectO    == <<"e", "x", "p", "e", "c", "t", " ", " ", "O", "\n">>
L_ExpectBad  == KwExpect \o <<" ", "[", "\n">>
L_ExpectA    == KwExpect \o <<" ", "A", " ", "#", "c", "\n">>
L_ExpectAny  == KwExpect \o <<" ", ".", "*", "\n">>
L_ExpectQO   == KwExpect \o <<" ", Q, "O", "\n">>
\* Device commands
L_SetA       == <<" ", "S", "E", "T", " ", "A", "\n">>
L_Go         == <<"G", "O", " ", "#", " ", "r", "u", "n", "\n">>

ScriptLines ==
    { L_Spaces, L_Comment,
      L_A_is_B, L_B_is_QQcQQ, L_A_is_QOKQ, L_B_is_Q, L_SetAeq1, L_ExpectEq,
      L_ExpectOK, L_expectO, L_ExpectBad, L_ExpectA, L_ExpectAny,
      L_ExpectQO,
      L_SetA, L_Go }

R_OK       == <<"O", "K", "\r", "\n">>
R_Debug    == <<" ">> \o DebugMarker \o <<"O", "K", "\n">>
R_NotDebug == <<"x">> \o DebugMarker \o <<"\n">>
R_Empty    == <<"\r", "\n">>

DeviceReplies == { R_OK, R_Debug, R_NotDebug, R_Empty }

\* No text of the model holds a regex character RegexParse does not model.
RegexFree ==
    \A t \in ScriptLines \cup DeviceReplies :
        \A i \in 1..Len(t) : t[i] \notin RegexUnmodelled

(***************************************************************************)
(* State of one run: the fields of I2CCommandRunner, the position of       *)
(* execute_commands, and what the run has done to its environment.         *)
(***************************************************************************)
VARIABLES
    pc,             \* "start", "connected", "loop", "drain" or "done"
    line,           \* the loop variable: the line last read from the file
    lines_read,     \* number of lines the file has given to the loop
    first_assigned, \* the names assigned so far, in order of first assignment
    available,      \* self.ser.in_waiting > 0, as the drain loop finds it
    ser,            \* self.ser: "none" (None), "open" or "closed"
    opens,          \* serial.Serial() calls that returned a port
    closes,         \* self.ser.close() calls
    last_response,  \* self.last_response
    line_number,    \* self.line_number
    executed_count, \* self.executed_count
    variables,      \* self.variables
    written_n,      \* number of texts passed to self.ser.write
    written_last,   \* the last text passed to self.ser.write
    window,         \* the raw lines readline returned in the current drain loop
    stdout_n,       \* number of lines printed to standard output
    stdout_last,    \* the last line printed to standard output
    outcome,        \* "running", "completed", or the error that was logged
    exit_status     \* the process exit status, -1 while the process runs

vars == <<pc, line, lines_read, first_assigned, available, ser, opens, closes, last_response, line_number, executed_count,
          variables, written_n, written_last, window, stdout_n, stdout_last,
          outcome, exit_status>>

\* What the run has sent to the device
written == <<written_n, written_last>>

runner == <<last_response, line_number, executed_count, variables>>

Init ==
    /\ pc = "start"
    /\ line = <<>>
    /\ lines_read = 0
    /\ first_assigned = <<>>
    /\ available = FALSE
    /\ ser = "none"
    /\ opens = 0
    /\ closes = 0
    /\ last_response = <<>>
    /\ line_number = 0
    /\ executed_count = 0
    /\ variables = <<>>
    /\ written_n = 0
    /\ written_last = <<>>
    /\ window = <<>>
    /\ stdout_n = 0
    /\ stdout_last = [kind |-> "none", text |-> <<>>]
    /\ outcome = "running"
    /\ exit_status = -1

\* print(...)
Print_(kind, text) ==
    /\ stdout_n' = stdout_n + 1
    /\ stdout_last' = [kind |-> kind, text |-> text]

(***************************************************************************)
(* disconnect, and the ways execute_commands ends.  The finally clause     *)
(* runs disconnect on every one of them.                                   *)
(***************************************************************************)
\* "if self.ser and self.ser.is_open"
MustClose(ser_) == ser_ = "open"

disconnect ==
    /\ ser' = IF MustClose(ser) THEN "closed" ELSE ser
    /\ closes' = IF MustClose(ser) THEN closes + 1 ELSE closes

\* Mutant of ExitWithError: the handler logs the error and does not exit.
ExitWithError_NoExit(kind) ==
    /\ outcome' = kind
    /\ exit_status' = 0
    /\ pc' = "done"
    /\ ser' = IF ser = "open" THEN "closed" ELSE ser
    /\ closes' = IF ser = "open" THEN closes + 1 ELSE closes

\* Mutant of ExitWithError: the exit skips the finally clause.
ExitWithError_NoFinally(kind) ==
    /\ outcome' = kind
    /\ exit_status' = 1
    /\ pc' = "done"
    /\ UNCHANGED <<ser, closes>>

\* sys.exit(1) after the error "kind" was logged; SystemExit passes the
\* except clauses and the finally clause disconnects.
ExitWithError(kind) ==
    /\ outcome' = kind
    /\ exit_status' = 1
    /\ pc' = "done"
    /\ disconnect

\* The loop ran out of lines: the function returns and the process ends.
ExitNormally ==
    /\ outcome' = "completed"
    /\ exit_status' = 0
    /\ pc' = "done"
    /\ disconnect

(***************************************************************************)
(* connect and open(self.command_file)                                     *)
(***************************************************************************)
Connect ==
    /\ pc = "start"
    /\ ser' = "open"
    /\ opens' = opens + 1
    /\ pc' = "connected"
    /\ UNCHANGED <<lines_read, first_assigned, available>>
    /\ UNCHANGED <<line, closes, runner, written, window, stdout_n, stdout_last,
                   outcome, exit_status>>

\* Mutant of ConnectFail: the error is logged and the run goes on without a
\* port.
ConnectFail_Continue ==
    /\ pc = "start"
    /\ pc' = "connected"
    /\ outcome' = "serial_error"
    /\ UNCHANGED <<lines_read, first_assigned, available>>
    /\ UNCHANGED <<line, ser, opens, closes, runner, written, window, stdout_n,
                   stdout_last, exit_status>>

\* serial.Serial raises SerialException: self.ser stays None
ConnectFail ==
    /\ pc = "start"
    /\ ExitWithError("serial_error")
    /\ UNCHANGED <<lines_read, first_assigned, available>>
    /\ UNCHANGED <<line, opens, runner, written, window, stdout_n, stdout_last>>

OpenScript ==
    /\ pc = "connected"
    /\ pc' = "loop"
    /\ UNCHANGED <<lines_read, first_assigned, available>>
    /\ UNCHANGED <<line, ser, opens, closes, runner, written, window, stdout_n,
                   stdout_last, outcome, exit_status>>

ScriptNotFound ==
    /\ pc = "connected"
    /\ ExitWithError("file_not_found")
    /\ UNCHANGED <<lines_read, first_assigned, available>>
    /\ UNCHANGED <<line, opens, runner, written, window, stdout_n, stdout_last>>

(***************************************************************************)
(* One iteration of "for line in f"                                        *)
(***************************************************************************)
\* The file has another line to give.
MoreLines == pc = "loop" /\ line_number < MaxLines

IsExpect(command) == StartsWith(Upper(command), KwExpect \o <<" ">>)

\* The text after the keyword, trimmed, with its quotes stripped
ExpectText(command) == StripChars(Strip(SliceFrom(command, 7)), {Q})

\* The pattern handle_expect_command matches against
ExpectPattern(vars_, command) ==
    substitute_variables(vars_, ExpectText(command))

\* Mutant of BlankLine: a blank line is skipped before it is counted.
BlankLine_NoCount ==
    \E l \in ScriptLines :
        /\ MoreLines
        /\ parse_line(l).blank
        /\ line' = l
        /\ lines_read' = lines_read + 1
        /\ UNCHANGED <<first_assigned, available>>
        /\ UNCHANGED <<pc, ser, opens, closes, last_response, line_number,
                       executed_count, variables, written, window, stdout_n,
                       stdout_last, outcome, exit_status>>

\* parse_line returned (None, None)
BlankLine ==
    \E l \in ScriptLines :
        /\ MoreLines
        /\ parse_line(l).blank
        /\ line' = l
        /\ lines_read' = lines_read + 1
        /\ line_number' = line_number + 1
        /\ UNCHANGED <<first_assigned, available>>
        /\ UNCHANGED <<pc, ser, opens, closes, last_response, executed_count,
                       variables, written, window, stdout_n, stdout_last,
                       outcome, exit_status>>

\* "if not command: continue"
CommentLine ==
    \E l \in ScriptLines :
        /\ MoreLines
        /\ ~parse_line(l).blank
        /\ parse_line(l).command = <<>>
        /\ line' = l
        /\ lines_read' = lines_read + 1
        /\ line_number' = line_number + 1
        /\ UNCHANGED <<first_assigned, available>>
        /\ UNCHANGED <<pc, ser, opens, closes, last_response, executed_count,
                       variables, written, window, stdout_n, stdout_last,
                       outcome, exit_status>>

\* The line is not skipped: its command goes to the dispatch.
Dispatched(l) ==
    ~parse_line(l).blank /\ parse_line(l).command # <<>>

\* The names in order of first assignment, once name is assigned
FirstAssigned(order, name) ==
    IF \E i \in 1..Len(order) : order[i] = name
    THEN order
    ELSE Append(order, name)

AssignLine ==
    \E l \in ScriptLines :
        LET command == parse_line(l).command IN
        /\ MoreLines
        /\ Dispatched(l)
        /\ IsAssignment(command)
        /\ line' = l
        /\ lines_read' = lines_read + 1
        /\ line_number' = line_number + 1
        /\ variables' = handle_variable_assignment(variables, command)
        /\ first_assigned' = FirstAssigned(first_assigned, AssignedName(command))
        /\ UNCHANGED <<available>>
        /\ UNCHANGED <<pc, ser, opens, closes, last_response, executed_count,
                       written, window, stdout_n, stdout_last, outcome,
                       exit_status>>

\* Mutant of ReachesExpect: EXPECT is dispatched before the assignment test.
ReachesExpect_First(l) ==
    /\ ~parse_line(l).blank
    /\ parse_line(l).command # <<>>
    /\ StartsWith(Upper(parse_line(l).command), KwExpect \o <<" ">>)

\* The line reaches handle_expect_command.
ReachesExpect(l) ==
    /\ Dispatched(l)
    /\ ~IsAssignment(parse_line(l).command)
    /\ IsExpect(parse_line(l).command)

\* Mutant of ExpectPass: a successful EXPECT consumes the retained response.
ExpectPass_Consumes ==
    \E l \in ScriptLines :
        LET expected == ExpectPattern(variables, parse_line(l).command) IN
        /\ MoreLines
        /\ ReachesExpect(l)
        /\ RegexValid(expected)
        /\ re_match(expected, last_response)
        /\ line' = l
        /\ lines_read' = lines_read + 1
        /\ line_number' = line_number + 1
        /\ Print_("expect_ok", expected)
        /\ last_response' = <<>>
        /\ UNCHANGED <<first_assigned, available>>
        /\ UNCHANGED <<pc, ser, opens, closes, executed_count,
                       variables, written, window, outcome, exit_status>>

ExpectPass ==
    \E l \in ScriptLines :
        LET expected == ExpectPattern(variables, parse_line(l).command) IN
        /\ MoreLines
        /\ ReachesExpect(l)
        /\ RegexValid(expected)
        /\ re_match(expected, last_response)
        /\ line' = l
        /\ lines_read' = lines_read + 1
        /\ line_number' = line_number + 1
        /\ Print_("expect_ok", expected)
        /\ UNCHANGED <<first_assigned, available>>
        /\ UNCHANGED <<pc, ser, opens, closes, last_response, executed_count,
                       variables, written, window, outcome, exit_status>>

\* Mutant of ExpectMismatch: the mismatch is logged and the loop goes on.
ExpectMismatch_LogOnly ==
    \E l \in ScriptLines :
        LET expected == ExpectPattern(variables, parse_line(l).command) IN
        /\ MoreLines
        /\ ReachesExpect(l)
        /\ RegexValid(expected)
        /\ ~re_match(expected, last_response)
        /\ line' = l
        /\ lines_read' = lines_read + 1
        /\ line_number' = line_number + 1
        /\ outcome' = "expect_mismatch"
        /\ UNCHANGED <<first_assigned, available>>
        /\ UNCHANGED <<pc, ser, opens, closes, last_response, executed_count,
                       variables, written, window, stdout_n, stdout_last,
                       exit_status>>

ExpectMismatch ==
    \E l \in ScriptLines :
        LET expected == ExpectPattern(variables, parse_line(l).command) IN
        /\ MoreLines
        /\ ReachesExpect(l)
        /\ RegexValid(expected)
        /\ ~re_match(expected, last_response)
        /\ line' = l
        /\ lines_read' = lines_read + 1
        /\ line_number' = line_number + 1
        /\ ExitWithError("expect_mismatch")
        /\ UNCHANGED <<first_assigned, available>>
        /\ UNCHANGED <<opens, last_response, executed_count, variables,
                       written, window, stdout_n, stdout_last>>

ExpectInvalid ==
    \E l \in ScriptLines :
        LET expected == ExpectPattern(variables, parse_line(l).command) IN
        /\ MoreLines
        /\ ReachesExpect(l)
        /\ ~RegexValid(expected)
        /\ line' = l
        /\ lines_read' = lines_read + 1
        /\ line_number' = line_number + 1
        /\ ExitWithError("expect_invalid")
        /\ UNCHANGED <<first_assigned, available>>
        /\ UNCHANGED <<opens, last_response, executed_count, variables,
                       written, window, stdout_n, stdout_last>>

\* The line reaches send_command.
ReachesSend(l) ==
    /\ Dispatched(l)
    /\ ~IsAssignment(parse_line(l).command)
    /\ ~IsExpect(parse_line(l).command)

\* Mutant of SendCommand: self.last_response is not cleared before the drain.
SendCommand_NoClear ==
    \E l \in ScriptLines :
        LET command == substitute_variables(variables, parse_line(l).command) IN
        /\ MoreLines
        /\ ReachesSend(l)
        /\ line' = l
        /\ lines_read' = lines_read + 1
        /\ line_number' = line_number + 1
        /\ Print_("sent", command)
        /\ written_n' = written_n + 1
        /\ written_last' = command \o <<"\n">>
        /\ executed_count' = executed_count + 1
        /\ window' = <<>>
        /\ pc' = "drain"
        /\ available' \in BOOLEAN
        /\ UNCHANGED <<first_assigned>>
        /\ UNCHANGED <<ser, opens, closes, last_response, variables, outcome,
                       exit_status>>

\* Mutant of SendCommand: the command is written as it stands in the script.
SendCommand_Unsubstituted ==
    \E l \in ScriptLines :
        LET command == parse_line(l).command IN
        /\ MoreLines
        /\ ReachesSend(l)
        /\ line' = l
        /\ lines_read' = lines_read + 1
        /\ line_number' = line_number + 1
        /\ Print_("sent", command)
        /\ written_n' = written_n + 1
        /\ written_last' = command \o <<"\n">>
        /\ executed_count' = executed_count + 1
        /\ last_response' = <<>>
        /\ window' = <<>>
        /\ pc' = "drain"
        /\ available' \in BOOLEAN
        /\ UNCHANGED <<first_assigned>>
        /\ UNCHANGED <<ser, opens, closes, variables, outcome, exit_status>>

\* send_command up to the drain loop
SendCommand ==
    \E l \in ScriptLines :
        LET command == substitute_variables(variables, parse_line(l).command) IN
        /\ MoreLines
        /\ ReachesSend(l)
        /\ line' = l
        /\ lines_read' = lines_read + 1
        /\ line_number' = line_number + 1
        /\ Print_("sent", command)
        /\ written_n' = written_n + 1
        /\ written_last' = command \o <<"\n">>
        /\ executed_count' = executed_count + 1
        /\ last_response' = <<>>
        /\ window' = <<>>
        /\ pc' = "drain"
        /\ available' \in BOOLEAN
        /\ UNCHANGED <<first_assigned>>
        /\ UNCHANGED <<ser, opens, closes, variables, outcome, exit_status>>

\* Mutant of SendWriteFail: the error is logged, the port is reopened and the
\* command is sent again.
SendWriteFail_Reconnect ==
    \E l \in ScriptLines :
        LET command == substitute_variables(variables, parse_line(l).command) IN
        /\ MoreLines
        /\ ReachesSend(l)
        /\ line' = l
        /\ lines_read' = lines_read + 1
        /\ line_number' = line_number + 1
        /\ Print_("sent", command)
        /\ outcome' = "serial_error"
        /\ opens' = opens + 1
        /\ written_n' = written_n + 1
        /\ written_last' = command \o <<"\n">>
        /\ executed_count' = executed_count + 1
        /\ last_response' = <<>>
        /\ window' = <<>>
        /\ pc' = "drain"
        /\ available' \in BOOLEAN
        /\ UNCHANGED <<first_assigned>>
        /\ UNCHANGED <<ser, closes, variables, exit_status>>

\* self.ser.write raises SerialException, after the command was printed
SendWriteFail ==
    \E l \in ScriptLines :
        LET command == substitute_variables(variables, parse_line(l).command) IN
        /\ MoreLines
        /\ ReachesSend(l)
        /\ line' = l
        /\ lines_read' = lines_read + 1
        /\ line_number' = line_number + 1
        /\ Print_("sent", command)
        /\ ExitWithError("serial_error")
        /\ UNCHANGED <<first_assigned, available>>
        /\ UNCHANGED <<opens, last_response, executed_count, variables,
                       written, window>>

\* Reading the file raises (UnicodeDecodeError, OSError): "except Exception"
ScriptReadFail ==
    /\ MoreLines
    /\ ExitWithError("unexpected_error")
    /\ UNCHANGED <<lines_read, first_assigned, available>>
    /\ UNCHANGED <<line, opens, runner, written, window, stdout_n, stdout_last>>

\* The for loop is exhausted.
EndOfScript ==
    /\ pc = "loop"
    /\ ExitNormally
    /\ UNCHANGED <<lines_read, first_assigned, available>>
    /\ UNCHANGED <<line, opens, runner, written, window, stdout_n, stdout_last>>

(***************************************************************************)
(* The drain loop of send_command                                          *)
(***************************************************************************)
IsDebug(response) == StartsWith(response, DebugMarker)

\* Mutant of Response: only the line end is removed.
Response_LineEndOnly(raw) == RStripChars(raw, {"\r", "\n"})

\* readline().decode().strip()
Response(raw) == Strip(raw)

\* in_waiting > 0, and readline returns the line raw
DrainRead ==
    \E raw \in DeviceReplies :
        LET response == Response(raw) IN
        /\ pc = "drain"
        /\ available
        /\ window' = Append(window, raw)
        /\ available' \in (IF Len(window') < MaxReplies THEN BOOLEAN ELSE {FALSE})
        /\ IF response # <<>> /\ ~IsDebug(response)
           THEN /\ Print_("reply", response)
                /\ last_response' = response
           ELSE UNCHANGED <<stdout_n, stdout_last, last_response>>
        /\ UNCHANGED <<lines_read, first_assigned>>
        /\ UNCHANGED <<line, pc, ser, opens, closes, line_number, executed_count,
                       variables, written, outcome, exit_status>>

\* in_waiting or readline raises SerialException: the drain loop is left
DrainReadFail ==
    /\ pc = "drain"
    /\ ExitWithError("serial_error")
    /\ window' = <<>>
    /\ available' = FALSE
    /\ UNCHANGED <<lines_read, first_assigned>>
    /\ UNCHANGED <<line, opens, runner, written, stdout_n, stdout_last>>

\* decode raises UnicodeDecodeError: "except Exception"
DrainDecodeFail ==
    /\ pc = "drain"
    /\ available
    /\ ExitWithError("unexpected_error")
    /\ window' = <<>>
    /\ available' = FALSE
    /\ UNCHANGED <<lines_read, first_assigned>>
    /\ UNCHANGED <<line, opens, runner, written, stdout_n, stdout_last>>

\* Mutant of DrainEnd: the loop stops reading after a fixed wait, whether or
\* not input is left.
DrainEnd_Timeout ==
    /\ pc = "drain"
    /\ pc' = "loop"
    /\ window' = <<>>
    /\ available' = FALSE
    /\ UNCHANGED <<lines_read, first_assigned>>
    /\ UNCHANGED <<line, ser, opens, closes, runner, written, stdout_n, stdout_last,
                   outcome, exit_status>>

\* in_waiting = 0: send_command returns, the for loop goes on
DrainEnd ==
    /\ pc = "drain"
    /\ ~available
    /\ pc' = "loop"
    /\ window' = <<>>
    /\ UNCHANGED <<lines_read, first_assigned, available>>
    /\ UNCHANGED <<line, ser, opens, closes, runner, written, stdout_n, stdout_last,
                   outcome, exit_status>>

Next ==
    \/ Connect
    \/ ConnectFail
    \/ OpenScript
    \/ ScriptNotFound
    \/ BlankLine
    \/ CommentLine
    \/ AssignLine
    \/ ExpectPass
    \/ ExpectMismatch
    \/ ExpectInvalid
    \/ SendCommand
    \/ SendWriteFail
    \/ ScriptReadFail
    \/ EndOfScript
    \/ DrainRead
    \/ DrainReadFail
    \/ DrainDecodeFail
    \/ DrainEnd

Spec == Init /\ [][Next]_vars

\* The process is one thread that keeps running: a step that can be taken is
\* taken.
FairSpec == Spec /\ WF_vars(Next)

(***************************************************************************)
(* Properties                                                              *)
(***************************************************************************)
Running == pc \in {"connected", "loop", "drain"}

Terminated == pc = "done"

ExpectFailures == {"expect_mismatch", "expect_invalid"}

\* C1 as stated: the transport is closed exactly once on every exit path of
\* the run, transport errors included.
C1_ClosedOnceOnEveryExit == Terminated => closes = 1

\* C1 (amended): the transport is opened at most once, stays open while the
\* script executes, and is closed exactly once on every exit path on which
\* it was opened (a failed open acquires nothing and closes nothing); in no
\* terminated state is the transport open.
C1_ReleasedOnceIfAcquired ==
    /\ opens <= 1
    /\ closes <= opens
    /\ (Running => ser = "open" /\ opens = 1 /\ closes = 0)
    /\ (Terminated => ser # "open" /\ closes = opens)
    /\ (Terminated /\ outcome # "serial_error" => opens = 1 /\ closes = 1)
    /\ (Terminated /\ line_number > 0 => opens = 1 /\ closes = 1)

C1_Witness ==
    /\ Terminated
    /\ outcome = "expect_invalid"
    /\ ser = "closed"
    /\ closes = 1

NothingAfterExpectFailure ==
    outcome \in ExpectFailures =>
        UNCHANGED <<written, variables, last_response, line_number,
                    executed_count, stdout_n, stdout_last, outcome>>

ExpectFailureStepIsInert ==
    (outcome' \in ExpectFailures /\ outcome = "running") =>
        (/\ line_number' = line_number + 1
         /\ UNCHANGED <<written, variables, last_response, executed_count,
                        stdout_n, stdout_last>>)

\* C2: once an EXPECT directive has failed, the run has ended with failure
\* and nothing is written, assigned, printed or counted any more; the failing
\* step itself writes nothing and assigns nothing.
C2_ExpectFailureIsHardStop ==
    /\ [](outcome \in ExpectFailures => Terminated /\ exit_status = 1)
    /\ [][NothingAfterExpectFailure]_vars
    /\ [][ExpectFailureStepIsInert]_vars

C2_Witness ==
    /\ outcome = "expect_mismatch"
    /\ Terminated
    /\ written_n = 1
    /\ line_number < MaxLines

\* The language of a valid pattern: p matches all of the text t.
InLanguage(p, t) == RegexFullAt(RegexParse(p, 1, <<>>).items, 1, t, 1)

\* p matches r starting at position 0: some prefix of r is in p's language.
MatchesAtStart(p, r) == \E k \in 0..Len(r) : InLanguage(p, SubSeq(r, 1, k))

\* A step that reads a line and takes it to the EXPECT handler.
ExpectStep == line_number' = line_number + 1 /\ ReachesExpect(line')

ExpectOutcome ==
    LET P == ExpectPattern(variables, parse_line(line').command)
        R == last_response
    IN  ExpectStep =>
          /\ (RegexValid(P) /\ MatchesAtStart(P, R)) =>
                /\ pc' = "loop"
                /\ outcome' = "running"
                /\ exit_status' = -1
                /\ stdout_n' = stdout_n + 1
                /\ stdout_last' = [kind |-> "expect_ok", text |-> P]
          /\ ~RegexValid(P) =>
                /\ pc' = "done"
                /\ outcome' = "expect_invalid"
                /\ exit_status' = 1
                /\ UNCHANGED <<stdout_n, stdout_last>>
          /\ (RegexValid(P) /\ ~MatchesAtStart(P, R)) =>
                /\ pc' = "done"
                /\ outcome' = "expect_mismatch"
                /\ exit_status' = 1
                /\ UNCHANGED <<stdout_n, stdout_last>>

\* C3: an EXPECT whose pattern P (quotes stripped, variables substituted) is
\* valid and matches the retained response R from position 0, without having
\* to consume R, prints a success line and the run goes on; an invalid P ends
\* the run with failure and a pattern error whatever R is; a valid P that does
\* not match at position 0 ends the run with failure and a mismatch error.
C3_ExpectThreeOutcomes == [][ExpectOutcome]_vars

C3_Witness ==
    /\ line = L_expectO
    /\ last_response = <<"O", "K">>
    /\ stdout_last = [kind |-> "expect_ok", text |-> <<"O">>]
    /\ pc = "loop"

Failures ==
    {"file_not_found", "serial_error", "unexpected_error",
     "expect_mismatch", "expect_invalid"}

ExitZeroOnlyAtEndOfScript ==
    (exit_status' = 0 /\ exit_status # 0) =>
        (pc = "loop" /\ outcome = "running" /\ UNCHANGED line_number)

\* C4: the exit status is 0 exactly when the loop ran to the end of the file
\* without error (the empty script included) and 1 when the run ended by
\* file-not-found, transport error, unexpected error or EXPECT failure; no
\* run ends with another status.
C4_ExitStatus ==
    /\ [](/\ exit_status \in {-1, 0, 1}
          /\ (Terminated <=> exit_status # -1)
          /\ (Terminated <=> outcome # "running")
          /\ (exit_status = 0 <=> outcome = "completed")
          /\ (exit_status = 1 <=> outcome \in Failures))
    /\ [][ExitZeroOnlyAtEndOfScript]_vars

\* The empty script: connected, nothing read or sent, status 0.
C4_Witness ==
    /\ Terminated
    /\ exit_status = 0
    /\ opens = 1
    /\ line_number = 0
    /\ written_n = 0

\* sub occurs in s as a substring
Occurs(sub, s) ==
    \E i \in 0..(Len(s) - Len(sub)) : SubSeq(s, i + 1, i + Len(sub)) = sub

\* A step that reads a line and writes its command to the transport.
SendStep == line_number' = line_number + 1 /\ written_n' = written_n + 1

\* A step that reads a line whose command holds an "=".
AssignStep ==
    /\ line_number' = line_number + 1
    /\ Contains(SplitHead(Strip(line'), "#"), "=")

\* The text a step substituted into, and the result of the substitution.
Substituted ==
    IF SendStep
    THEN [before |-> parse_line(line').command,
          after  |-> SubSeq(written_last', 1, Len(written_last') - 1)]
    ELSE [before |-> ExpectText(parse_line(line').command),
          after  |-> stdout_last'.text]

SubstitutingStep ==
    SendStep \/ (ExpectStep /\ stdout_n' = stdout_n + 1)

\* Variable i of the store d is the only one whose name occurs in the text.
OnlyReference(d, i, text) ==
    /\ Occurs(d[i].name, text)
    /\ \A j \in 1..Len(d) : j # i => ~Occurs(d[j].name, text)

\* No other variable's name occurs in the text.
NoOther(d, i, text) == \A j \in 1..Len(d) : j # i => ~Occurs(d[j].name, text)

ReferenceReplacedAlways ==
    SubstitutingStep =>
        LET b == Substituted.before
            a == Substituted.after
        IN  \A i \in 1..Len(variables) :
                OnlyReference(variables, i, b) =>
                    a = Replace(b, variables[i].name, variables[i].value)

ReferenceReplacedIfAlone ==
    SubstitutingStep =>
        LET b == Substituted.before
            a == Substituted.after
        IN  \A i \in 1..Len(variables) :
                LET r == Replace(b, variables[i].name, variables[i].value) IN
                (OnlyReference(variables, i, b) /\ NoOther(variables, i, r))
                    => a = r

\* VALUE of a NAME=VALUE command: the text after the first "=", trimmed, less
\* its first and last character when it starts and ends with a double quote.
ValueOf(command) ==
    LET t == Strip(SplitRest(command, "=")) IN
    IF t # <<>> /\ t[1] = Q /\ t[Len(t)] = Q
    THEN SubSeq(t, 2, Len(t) - 1)
    ELSE t

NameOf(command) == Strip(SplitHead(command, "="))

\* The store d becomes e: NAME maps to VALUE, the other variables and the
\* order of the names are as before.
Stored(d, e, n, v) ==
    /\ \E i \in 1..Len(e) : e[i].name = n /\ e[i].value = v
    /\ \A i \in 1..Len(d) :
           /\ e[i].name = d[i].name
           /\ d[i].name # n => e[i].value = d[i].value

\* An assignment stores VALUE under NAME and changes no other variable.
AssignmentStores ==
    AssignStep =>
        Stored(variables, variables',
               NameOf(SplitHead(Strip(line'), "#")),
               ValueOf(SplitHead(Strip(line'), "#")))

StoreKeptOtherwise == ~AssignStep => UNCHANGED variables

RECURSIVE RetainedOf(_)
RetainedOf(w) ==
    IF w = <<>> THEN <<>>
    ELSE LET t == StripChars(w[Len(w)], Whitespace) IN
         IF t # <<>> /\ ~StartsWith(t, DebugMarker)
         THEN t
         ELSE RetainedOf(SubSeq(w, 1, Len(w) - 1))

DrainResultKept ==
    (pc = "drain" /\ pc' = "loop") => last_response' = RetainedOf(window)

RetainedUntilNextSend ==
    (pc = "loop" /\ ~SendStep) => UNCHANGED last_response

\* C6: during and after the drain of a command the retained response is the
\* last non-empty, non-debug line (trimmed) received in that command's drain
\* window, and the empty text when there was none; a send clears what an
\* earlier command left, and nothing but a send changes it afterwards.
C6_RetainedIsLastOfWindow ==
    /\ [](pc = "drain" => last_response = RetainedOf(window))
    /\ [][DrainResultKept]_vars
    /\ [][RetainedUntilNextSend]_vars

C6_Witness ==
    /\ pc = "drain"
    /\ window = <<R_OK, R_NotDebug, R_Empty>>
    /\ last_response = <<"x">> \o DebugMarker

\* A step of the drain loop that reads a debug line.
DebugLineStep ==
    /\ pc = "drain"
    /\ Len(window') = Len(window) + 1
    /\ StartsWith(LStripChars(window'[Len(window')], Whitespace), DebugMarker)

DebugLineIgnored ==
    DebugLineStep => UNCHANGED <<stdout_n, stdout_last, last_response>>

\* C7: a reply line that, trimmed, begins with [DBG] is not printed and does
\* not change the retained response, wherever it comes in the drain window.
C7_DebugLinesIgnored == [][DebugLineIgnored]_vars

\* A debug line between two other lines: two replies were printed after the
\* command and the second of them is retained.
C7_Witness ==
    /\ pc = "drain"
    /\ window = <<R_OK, R_Debug, R_NotDebug>>
    /\ line_number = 1
    /\ stdout_n = 3
    /\ last_response = <<"x">> \o DebugMarker

\* Nothing but whitespace comes before the first "#" of the line, if any.
BlankOrCommentOnly(l) ==
    LET t == LStripChars(l, Whitespace) IN t = <<>> \/ t[1] = "#"

SkippedLineIsInert ==
    (line_number' # line_number /\ BlankOrCommentOnly(line')) =>
        /\ line_number' = line_number + 1
        /\ UNCHANGED <<written, executed_count, variables, last_response,
                       stdout_n, stdout_last, pc, outcome>>

\* C8: a line of whitespace and/or a comment only advances the line counter:
\* nothing is written, and the command counter, the variables and the
\* retained response stay as they are.
C8_BlankLinesAreInert == [][SkippedLineIsInert]_vars

\* A comment line read after a device command.
C8_Witness ==
    /\ line = L_Comment
    /\ line_number = 2
    /\ written_n = 1
    /\ pc = "loop"

AssignmentTakesPrecedence ==
    AssignStep =>
        /\ pc' = "loop"
        /\ DictHas(variables', NameOf(SplitHead(Strip(line'), "#")))
        /\ UNCHANGED <<written, executed_count, last_response, stdout_n,
                       stdout_last, outcome, exit_status, window>>

OnlyLinesWithoutEqualsGoOn ==
    (line_number' # line_number
     /\ (written' # written \/ stdout_n' # stdout_n \/ outcome' \in ExpectFailures))
        => ~Contains(parse_line(line').command, "=")

\* C9: a command that holds an "=" is consumed as an assignment: it is not
\* written to the transport and not evaluated as an EXPECT, even when it
\* starts with "EXPECT " or was meant for the device; only commands without
\* "=" reach the EXPECT handler or the transport.
C9_AssignmentFirst ==
    /\ [][AssignmentTakesPrecedence]_vars
    /\ [][OnlyLinesWithoutEqualsGoOn]_vars

\* EXPECT "a=b" read after a command: stored as a variable, nothing evaluated.
C9_Witness ==
    /\ line = L_ExpectEq
    /\ pc = "loop"
    /\ written_n = 1
    /\ variables = << [name  |-> KwExpect \o <<" ", Q, "a">>,
                       value |-> <<"b", Q>>] >>

NothingAfterTransportError ==
    outcome = "serial_error" =>
        UNCHANGED <<written, variables, last_response, line_number,
                    executed_count, stdout_n, stdout_last, outcome, opens,
                    closes, ser>>

TransportErrorStepSendsNothing ==
    (outcome' = "serial_error" /\ outcome = "running") =>
        UNCHANGED <<written, executed_count, opens, variables>>

\* C10: a transport error on open, write or read ends the run: the transport,
\* if it was opened, is closed, the status is 1, no line is processed
\* afterwards, the command is not sent again and the port is not reopened.
C10_TransportErrorIsFatal ==
    /\ [](outcome = "serial_error" =>
            /\ Terminated
            /\ exit_status = 1
            /\ ser # "open"
            /\ opens <= 1
            /\ closes = opens)
    /\ [][NothingAfterTransportError]_vars
    /\ [][TransportErrorStepSendsNothing]_vars

\* The write of the second command failed: one command written, port closed.
C10_Witness ==
    /\ outcome = "serial_error"
    /\ stdout_last.kind = "sent"
    /\ line_number = 2
    /\ written_n = 1
    /\ stdout_n = 2
    /\ ser = "closed"

\* One pair of quotes removed, if the text begins and ends with a quote
OnePairStripped(text) ==
    IF Len(text) >= 2 /\ text[1] = Q /\ text[Len(text)] = Q
    THEN SliceInner(text)
    ELSE text

\* The pattern a passing EXPECT printed is the text after the keyword, trimmed,
\* without one pair of quotes, after substitution.
PatternHasOnePairStripped ==
    (ExpectStep /\ stdout_last'.kind = "expect_ok" /\ stdout_n' = stdout_n + 1) =>
        stdout_last'.text =
            substitute_variables(variables,
                OnePairStripped(Strip(SliceFrom(parse_line(line').command, 7))))

\* C11: the pattern of an EXPECT is the trimmed text after the keyword with
\* exactly one leading and one trailing quote removed when it has both; an
\* unpaired quote and the quotes inside the pair stay in the pattern.
C11_OnePairOfQuotesStripped == [][PatternHasOnePairStripped]_vars

\* The result of a substitution is that of one pass over the original text.
InsertedTextNotScanned ==
    SubstitutingStep =>
        Substituted.after =
            substitute_variables_SinglePass(variables, Substituted.before)

\* The first n variables of the store d replaced in the text, one after
\* another, each in the result of the replacements before it.
RECURSIVE ReplacedUpTo(_, _, _)
ReplacedUpTo(d, n, text) ==
    IF n = 0 THEN text
    ELSE Replace(ReplacedUpTo(d, n - 1, text), d[n].name, d[n].value)

\* One replacement per variable, in store order, on the running result.
OneReplacementPerVariable ==
    SubstitutingStep =>
        Substituted.after =
            ReplacedUpTo(variables, Len(variables), Substituted.before)

\* C12 as stated: substituted text is never scanned for another variable's
\* name; each name is matched against the original command text only.
C12_NoRescanOfInsertedText == [][InsertedTextNotScanned]_vars

\* C12 (amended): substitution is one pass over the variables, not over the
\* text: each variable is replaced once, in store order, in the result of the
\* replacements before it, so inserted text is scanned for the names of the
\* variables later in the order and for no others; the pass is not repeated.
C12_OnePassOverVariables == [][OneReplacementPerVariable]_vars

\* B assigned, then A=B, then "SET A" sends "SET B": the inserted B is not
\* replaced, B comes before A in the store.
C12_Witness ==
    /\ line = L_SetA
    /\ variables = << [name |-> <<"B">>, value |-> <<Q, "c", Q>>],
                      [name |-> <<"A">>, value |-> <<"B">>] >>
    /\ written_last = <<"S", "E", "T", " ", "B", "\n">>

\* The command of a script line: the text before the first "#", trimmed.
CommandOf(l) == Strip(SplitHead(Strip(l), "#"))

\* A line classified as a device command: not blank, not a comment, without
\* "=", not an EXPECT directive.
DeviceCommandLine(l) ==
    /\ CommandOf(l) # <<>>
    /\ ~Contains(CommandOf(l), "=")
    /\ ~StartsWith(Upper(CommandOf(l)), KwExpect \o <<" ">>)

\* A step that reads the next line of the script.
LineStep == line_number' = line_number + 1

\* The step of a device-command line writes its substituted command once,
\* with a newline, unless the write raises; no other step writes.
WrittenInScriptOrder ==
    IF LineStep /\ DeviceCommandLine(line')
    THEN \/ /\ written_n' = written_n + 1
            /\ written_last' =
                   ReplacedUpTo(variables, Len(variables), CommandOf(line'))
                       \o <<"\n">>
         \/ /\ outcome' = "serial_error"
            /\ UNCHANGED written
    ELSE UNCHANGED written

\* A line is read only when the drain of the line before it has ended, and
\* the drain loop neither reads a line nor writes.
OneLineAtATime ==
    /\ LineStep => (pc = "loop" /\ window = <<>> /\ ~available)
    /\ pc = "drain" => UNCHANGED <<line, line_number, written, variables>>
    /\ (pc = "drain" /\ pc' = "loop") => ~available

\* C13: what is written to the transport is, in script order, the substituted
\* command of each device-command line, once and newline-terminated; a line
\* is read and written only after the line before it was drained or validated.
C13_WritesFollowScriptOrder ==
    /\ [][WrittenInScriptOrder]_vars
    /\ [][OneLineAtATime]_vars

\* A assigned, "GO" written and drained, then "SET A" written as "SET OK".
C13_Witness ==
    /\ line = L_SetA
    /\ line_number = 3
    /\ written_n = 2
    /\ written_last = <<"S", "E", "T", " ", "O", "K", "\n">>
    /\ pc = "drain"

\* A line that is not a device command leaves the retained response as it
\* is, writes nothing and starts no drain.
OtherLinesKeepResponse ==
    (LineStep /\ ~DeviceCommandLine(line')) =>
        /\ UNCHANGED <<last_response, written, executed_count, window>>
        /\ pc' # "drain"

\* The retained response changes only when a device command is sent and
\* while its replies are drained.
ResponseChangesOnlyInSend ==
    last_response' # last_response =>
        \/ LineStep /\ DeviceCommandLine(line') /\ written_n' = written_n + 1
        \/ pc = "drain" /\ pc' = "drain" /\ Len(window') = Len(window) + 1

\* C14: only device commands change the retained response; assignments and
\* EXPECT directives leave it unchanged and write nothing, so every EXPECT up
\* to the next device command sees the response of the last one.
C14_OnlyCommandsChangeResponse ==
    /\ [][OtherLinesKeepResponse]_vars
    /\ [][ResponseChangesOnlyInSend]_vars

\* "GO" answered by "OK", then two EXPECT directives in a row pass on it.
C14_Witness ==
    /\ line_number = 3
    /\ written_n = 1
    /\ stdout_n = 4
    /\ stdout_last.kind = "expect_ok"
    /\ last_response = <<"O", "K">>
    /\ pc = "loop"

\* The names of the store are distinct, and every name ever assigned is one.
StoreHoldsEveryAssignedName ==
    /\ \A i, j \in 1..Len(variables) :
           variables[i].name = variables[j].name => i = j
    /\ \A i \in 1..Len(first_assigned) : DictHas(variables, first_assigned[i])

\* No step removes a name from the store.
StoreGrows ==
    \A i \in 1..Len(variables) : DictHas(variables', variables[i].name)

\* An assignment maps its name to its value and keeps the other values; no
\* other step changes the store.
LastAssignmentWins ==
    IF AssignStep
    THEN LET command == CommandOf(line') IN
         /\ DictGet(variables', NameOf(command)) = ValueOf(command)
         /\ \A i \in 1..Len(variables) :
                variables[i].name # NameOf(command) =>
                    DictGet(variables', variables[i].name) = variables[i].value
         /\ Len(variables') <= Len(variables) + 1
    ELSE UNCHANGED variables

\* C15: only assignments change the variable store and it only grows: every
\* name ever assigned is in it with the value of its latest assignment;
\* device commands and EXPECT directives leave it unchanged.
C15_StoreGrowsLastWins ==
    /\ []StoreHoldsEveryAssignedName
    /\ [][StoreGrows]_vars
    /\ [][LastAssignmentWins]_vars

\* A and B assigned, then "SET A" was substituted and sent: both are kept.
C15_Witness ==
    /\ line = L_SetA
    /\ line_number = 3
    /\ written_n = 1
    /\ variables = << [name |-> <<"A">>, value |-> <<"O", "K">>],
                      [name |-> <<"B">>, value |-> <<Q, "c", Q>>] >>

\* The counters agree with what was written and read.
CountersAgree ==
    /\ executed_count = written_n
    /\ line_number = lines_read
    /\ executed_count <= line_number

CountersNeverDecrease ==
    /\ executed_count' >= executed_count
    /\ line_number' >= line_number

\* C16: the executed-command counter is the number of commands written, the
\* line counter the number of lines read, whatever their kind; the first
\* never exceeds the second and neither decreases.
C16_CounterInvariant ==
    /\ []CountersAgree
    /\ [][CountersNeverDecrease]_vars

\* A blank line read as third line, after one device command among the first
\* two: three lines counted, one command.
C16_Witness ==
    /\ line = L_Spaces
    /\ line_number = 3
    /\ executed_count = 1
    /\ variables # <<>>

\* The first n names of the order replaced in the text by their values in
\* the store d, one after another.
RECURSIVE ReplacedInOrder(_, _, _, _)
ReplacedInOrder(order, d, n, text) ==
    IF n = 0 THEN text
    ELSE Replace(ReplacedInOrder(order, d, n - 1, text),
                 order[n], DictGet(d, order[n]))

\* Commands in which the order of the replacements can show
OrderProbes == { <<"S", "E", "T", " ", "A">>, <<"A", "B">>, <<"B", "A">> }

\* The store lists the names in the order of their first assignment, and
\* substitution into a command replaces them in that order.
SubstitutionOrderIsFirstAssignment ==
    /\ Len(variables) = Len(first_assigned)
    /\ \A i \in 1..Len(variables) : variables[i].name = first_assigned[i]
    /\ \A c \in OrderProbes :
           substitute_variables(variables, c) =
               ReplacedInOrder(first_assigned, variables,
                               Len(first_assigned), c)

\* An assignment to a name of the store keeps every name at its position.
ReassignmentKeepsPosition ==
    (AssignStep /\ DictHas(variables, NameOf(CommandOf(line')))) =>
        /\ Len(variables') = Len(variables)
        /\ \A i \in 1..Len(variables) : variables'[i].name = variables[i].name

\* What a step substituted is the replacement in first-assignment order.
SubstitutedInFirstAssignmentOrder ==
    SubstitutingStep =>
        Substituted.after =
            ReplacedInOrder(first_assigned, variables, Len(first_assigned),
                            Substituted.before)

\* C17: the variables are substituted in the order of their first
\* assignment; assigning a name again changes its value, not its position.
C17_FirstAssignmentOrder ==
    /\ []SubstitutionOrderIsFirstAssignment
    /\ [][ReassignmentKeepsPosition]_vars
    /\ [][SubstitutedInFirstAssignmentOrder]_vars

\* A, then B, then A again as "B": A is still replaced first, so "SET A"
\* gives "SET" with B's value; in the order of the latest assignments it
\* would give "SET B".
C17_Witness ==
    /\ line = L_A_is_B
    /\ line_number = 3
    /\ first_assigned = << <<"A">>, <<"B">> >>
    /\ variables = << [name |-> <<"A">>, value |-> <<"B">>],
                      [name |-> <<"B">>, value |-> <<Q, "c", Q>>] >>
    /\ substitute_variables(variables, <<"S", "E", "T", " ", "A">>)
           = <<"S", "E", "T", " ", Q, "c", Q>>

\* A step that reads a line, writes to the transport or reads from it is
\* taken with the connection open.
TransportUsedOnlyWhileOpen ==
    (\/ lines_read' # lines_read
     \/ line_number' # line_number
     \/ written' # written
     \/ window' # window
     \/ last_response' # last_response) => ser = "open"

\* Once the connection is closed nothing is written and no line is read.
NothingAfterClose ==
    ser = "closed" => UNCHANGED <<written, lines_read, line_number, ser, opens>>

\* The loop and the drain run with the connection open; a run whose open
\* failed has read no line and written nothing.
OpenWhileRunning ==
    /\ Running => (ser = "open" /\ opens = 1 /\ closes = 0)
    /\ (Terminated /\ opens = 0) =>
           /\ ser = "none"
           /\ outcome = "serial_error"
           /\ lines_read = 0
           /\ line_number = 0
           /\ written_n = 0
           /\ stdout_n = 0
           /\ variables = <<>>

\* C18: the transport is written to and read from only between a successful
\* connect and the disconnect; if the open fails no line is read and nothing
\* is written, and nothing is written after the close.
C18_TransportUsedOnlyWhileOpen ==
    /\ []OpenWhileRunning
    /\ [][TransportUsedOnlyWhileOpen]_vars
    /\ [][NothingAfterClose]_vars

\* The open failed: the run is over, without a port, a line or a write.
C18_Witness ==
    /\ Terminated
    /\ ser = "none"
    /\ opens = 0
    /\ outcome = "serial_error"
    /\ exit_status = 1
    /\ written_n = 0
    /\ lines_read = 0

\* The drain loop is left for the next line only when no input is available,
\* and while input is available the loop reads on or an error ends the run.
DrainEndsWhenNothingAvailable ==
    /\ (pc = "drain" /\ pc' = "loop") => ~available
    /\ (pc = "drain" /\ available) =>
           \/ pc' = "drain" /\ Len(window') = Len(window) + 1
           \/ pc' = "done" /\ exit_status' = 1

\* A run that is over processed every line it read, or stopped at an error.
RunEnded ==
    /\ Terminated
    /\ exit_status \in {0, 1}
    /\ exit_status = 0 <=> outcome = "completed"
    /\ ser # "open"
    /\ ~available

\* C19: with a device that sends finitely many reply lines after each
\* command, every drain loop ends and the run terminates; a drain loop is
\* left for the next line only when no input is available.
C19_RunTerminates ==
    /\ <>RunEnded
    /\ [][DrainEndsWhenNothingAvailable]_vars

\* Three commands, each answered by three printed reply lines, and the run
\* completed.
C19_Witness ==
    /\ Terminated
    /\ outcome = "completed"
    /\ executed_count = 3
    /\ stdout_n = 12
    /\ ~available

====
